---- MODULE Spec2Model ----
(***************************************************************************)
(* A model of the Adzuna job-search gateway (server.py): the FastAPI       *)
(* routes that translate a local request into one outbound GET to the      *)
(* Adzuna API and normalise the reply, and the pure helper                 *)
(* remove_class_fields.                                                    *)
(*                                                                         *)
(* JSON values are tagged records so that values of different JSON types   *)
(* can be compared:                                                        *)
(*   [t |-> "null"]  [t |-> "num", n |-> 1]  [t |-> "str", s |-> "x"]      *)
(*   [t |-> "arr", a |-> <<...>>]   [t |-> "obj", m |-> [key |-> value]]   *)
(***************************************************************************)
EXTENDS Integers, Sequences, FiniteSets, TLC

VARIABLES
    ADZUNA_APP_ID,   \* stored credential, read once at import (server.py:49)
    ADZUNA_APP_KEY,  \* stored credential, read once at import (server.py:50)
    req,             \* req[r]: the state of request r (its handler's position and data)
    loop,            \* the request whose coroutine occupies the event loop, 0 when idle
    sent,            \* the outbound GETs issued so far, in order
    data,            \* remove_class_fields: the argument
    cleaned,         \* remove_class_fields: the value returned, NotRun before the call
    cleaned2,        \* remove_class_fields applied to cleaned, NotRun before that call
    call,            \* remove_class_fields step by step: the heap and the call stack
    environ,         \* os.environ: the variables set, name |-> value
    environ0,        \* os.environ as it was when the process started
    envfile,         \* the lines of the .env file, or NoFile
    boot,            \* position of the import: "start", "loaded", "ready"
    mcp              \* the MCP server: its tool registry and the replies it has given

srvVars == <<ADZUNA_APP_ID, ADZUNA_APP_KEY, req, loop, sent>>
rcfVars == <<data, cleaned, cleaned2, call>>
envVars == <<environ, environ0, envfile, boot>>

vars == <<srvVars, rcfVars, envVars, mcp>>

-----------------------------------------------------------------------------
(* Bounds *)

\* largest number of nodes (scalars, arrays, objects) of a JSON value given to
\* remove_class_fields
MaxNodes == 4

\* number of requests that may be alive at the same time
NReq == 2

\* largest number of lines of a .env file
MaxLines == 2

\* largest number of MCP requests answered in one run
MaxMcp == 4

-----------------------------------------------------------------------------
(* JSON values *)

JNull == [t |-> "null"]
JNum(n) == [t |-> "num", n |-> n]
JBool(b) == [t |-> "bool", b |-> b]
JStr(s) == [t |-> "str", s |-> s]
JArr(a) == [t |-> "arr", a |-> a]
JObj(m) == [t |-> "obj", m |-> m]

CLASS_KEY == "__CLASS__"

\* the object keys of the generated JSON values, in generation order
JsonKeys == <<"__CLASS__", "title", "salary_min">>

JsonScalars == {JNum(1), JStr("x")}

RECURSIVE JsonOfSize(_), ArrOfSize(_), ObjOfSize(_, _)
\* the JSON values with exactly n nodes
JsonOfSize(n) ==
    IF n < 1 THEN {}
    ELSE (IF n = 1 THEN JsonScalars ELSE {})
         \cup {JArr(a) : a \in ArrOfSize(n - 1)}
         \cup {JObj(m) : m \in ObjOfSize(n - 1, JsonKeys)}

\* the arrays whose elements have n nodes in total
ArrOfSize(n) ==
    IF n = 0 THEN {<<>>}
    ELSE UNION {{<<x>> \o rest : x \in JsonOfSize(k), rest \in ArrOfSize(n - k)} :
                k \in 1..n}

\* the key/value maps over the keys ks whose values have n nodes in total
ObjOfSize(n, ks) ==
    IF ks = <<>> THEN (IF n = 0 THEN {<<>>} ELSE {})
    ELSE ObjOfSize(n, Tail(ks))
         \cup UNION {{(Head(ks) :> x) @@ rest :
                        x \in JsonOfSize(k), rest \in ObjOfSize(n - k, Tail(ks))} :
                     k \in 1..n}

JsonValues == UNION {JsonOfSize(n) : n \in 1..MaxNodes}

-----------------------------------------------------------------------------
(* remove_class_fields (server.py:31-42) *)

RECURSIVE remove_class_fields_shallow(_)
\* a plausible bug: the marker is removed from the top-level object only
remove_class_fields_shallow(v) ==
    IF v.t = "obj"
    THEN JObj([key \in DOMAIN v.m \ {CLASS_KEY} |-> v.m[key]])
    ELSE IF v.t = "arr"
    THEN JArr([i \in 1..Len(v.a) |-> remove_class_fields_shallow(v.a[i])])
    ELSE v

RECURSIVE remove_class_fields_peel(_)
\* a plausible bug: an object that holds the marker loses it and is returned
\* without descending into its values
remove_class_fields_peel(v) ==
    IF v.t = "obj"
    THEN IF CLASS_KEY \in DOMAIN v.m
         THEN JObj([key \in DOMAIN v.m \ {CLASS_KEY} |-> v.m[key]])
         ELSE JObj([key \in DOMAIN v.m |-> remove_class_fields_peel(v.m[key])])
    ELSE IF v.t = "arr"
    THEN JArr([i \in 1..Len(v.a) |-> remove_class_fields_peel(v.a[i])])
    ELSE v

RECURSIVE remove_class_fields(_)
remove_class_fields(v) ==
    IF v.t = "obj"
    THEN JObj([key \in DOMAIN v.m \ {CLASS_KEY} |-> remove_class_fields(v.m[key])])
    ELSE IF v.t = "arr"
    THEN JArr([i \in 1..Len(v.a) |-> remove_class_fields(v.a[i])])
    ELSE v

NotRun == [t |-> "notrun"]

\* no step-by-step call of remove_class_fields in progress
NoCall == [pc |-> "none", heap |-> <<>>, root |-> NotRun, stack |-> <<>>, ret |-> NotRun]

-----------------------------------------------------------------------------
(* The local surface: operations and their declared query parameters.      *)
(* A request arrives as [op |-> operation, args |-> [name |-> text]]: on   *)
(* the wire every query parameter is a string, and the declared type       *)
(* decides how it is parsed.                                               *)

UpstreamOps == {"search_jobs", "get_categories", "get_top_companies",
                "get_salary_histogram", "get_geodata", "get_salary_history",
                "get_api_version"}

Ops == UpstreamOps \cup {"health_check"}

LocationParams == {"location0", "location1", "location2", "location3",
                   "location4", "location5", "location6", "location7"}

\* Optional[bool] = Query(None) of search_jobs (server.py:122-137, 206-209)
BoolParams == {"full_time", "part_time", "contract", "permanent",
               "salary_include_unknown"}

\* Optional[int] = Query(None) (server.py:158, 194, 695)
IntParams(op) ==
    IF op = "search_jobs" THEN {"distance", "max_days_old"}
    ELSE IF op = "get_salary_history" THEN {"months"}
    ELSE {}

\* Optional[str] = Query(None), forwarded under `if name:`
StrParams(op) ==
    IF op = "search_jobs"
    THEN {"where", "sort_by", "what_and", "what_phrase", "what_or", "what_exclude",
          "title_only", "category", "sort_dir", "company"} \cup LocationParams
    ELSE IF op \in {"get_top_companies", "get_salary_histogram"}
    THEN {"what", "category"} \cup LocationParams
    ELSE IF op \in {"get_geodata", "get_salary_history"}
    THEN {"category"} \cup LocationParams
    ELSE {}

\* a plausible bug: `what` of search_jobs declared Query(None) like the others
RequiredParamsNone(op) == {}

\* parameters declared with Query(...): the framework rejects a request without
\* them.  Only search_jobs declares one (what, server.py:95); the `what` of
\* get_salary_histogram is Optional[str] = Query(None) (server.py:463).
RequiredParams(op) ==
    IF op = "search_jobs" THEN {"what"} ELSE {}

DEFAULT_COUNTRY == "sg"
DEFAULT_PAGE == 1
DEFAULT_RESULTS_PER_PAGE == 10
MIN_PAGE == 1
MIN_RESULTS_PER_PAGE == 1
MAX_RESULTS_PER_PAGE == 50
REQUEST_TIMEOUT == 10

\* the integers a query parameter of the model can spell
IntRange == (0 - 1)..(MAX_RESULTS_PER_PAGE + 1)

\* int parsing of a query string: defined on decimal numerals only
IsInt(s) == \E n \in IntRange : ToString(n) = s
IntOf(s) == CHOOSE n \in IntRange : ToString(n) = s

\* bool parsing of a query string
IsBool(s) == s \in {"true", "false", "1", "0"}
BoolOf(s) == s \in {"true", "1"}

Supplied(args, name) == name \in DOMAIN args

\* the value of an int parameter, or its default when not supplied
IntArg(args, name, default) ==
    IF Supplied(args, name) THEN IntOf(args[name]) ELSE default

StrArg(args, name, default) ==
    IF Supplied(args, name) THEN args[name] ELSE default

\* a plausible bug: results_per_page declared without le=50
ValidRequestNoUpperBound(op, args) ==
    /\ \A name \in RequiredParams(op) : Supplied(args, name)
    /\ \A name \in IntParams(op) \cap DOMAIN args : IsInt(args[name])
    /\ op = "search_jobs" =>
        /\ \A name \in BoolParams \cap DOMAIN args : IsBool(args[name])
        /\ \A name \in {"page", "results_per_page"} \cap DOMAIN args : IsInt(args[name])
        /\ IntArg(args, "page", DEFAULT_PAGE) >= MIN_PAGE
        /\ IntArg(args, "results_per_page", DEFAULT_RESULTS_PER_PAGE) >= MIN_RESULTS_PER_PAGE

\* Request validation done by the framework from the route's declaration,
\* before the handler body runs: required parameters present, typed
\* parameters parse, ge/le constraints hold.  Undeclared names are ignored.
ValidRequest(op, args) ==
    /\ \A name \in RequiredParams(op) : Supplied(args, name)
    /\ \A name \in IntParams(op) \cap DOMAIN args : IsInt(args[name])
    /\ op = "search_jobs" =>
        /\ \A name \in BoolParams \cap DOMAIN args : IsBool(args[name])
        /\ \A name \in {"page", "results_per_page"} \cap DOMAIN args : IsInt(args[name])
        /\ IntArg(args, "page", DEFAULT_PAGE) >= MIN_PAGE
        /\ IntArg(args, "results_per_page", DEFAULT_RESULTS_PER_PAGE) >= MIN_RESULTS_PER_PAGE
        /\ IntArg(args, "results_per_page", DEFAULT_RESULTS_PER_PAGE) =< MAX_RESULTS_PER_PAGE

-----------------------------------------------------------------------------
(* Request Translator: endpoint and query of the outbound GET *)

API_BASE == "https://api.adzuna.com/v1/api"

UpstreamPath(op) ==
    CASE op = "search_jobs" -> "search"
      [] op = "get_categories" -> "categories"
      [] op = "get_top_companies" -> "top_companies"
      [] op = "get_salary_histogram" -> "histogram"
      [] op = "get_geodata" -> "geodata"
      [] op = "get_salary_history" -> "history"
      [] op = "get_api_version" -> "version"

\* a plausible bug: the page segment left out of the search URL
EndpointNoPage(op, args) ==
    IF op = "get_api_version" THEN API_BASE \o "/version"
    ELSE API_BASE \o "/jobs/" \o StrArg(args, "country", DEFAULT_COUNTRY) \o "/"
         \o UpstreamPath(op)

\* the f-string `endpoint` of each handler
Endpoint(op, args) ==
    IF op = "get_api_version" THEN API_BASE \o "/version"
    ELSE IF op = "search_jobs"
    THEN API_BASE \o "/jobs/" \o StrArg(args, "country", DEFAULT_COUNTRY) \o "/search/"
         \o ToString(IntArg(args, "page", DEFAULT_PAGE))
    ELSE API_BASE \o "/jobs/" \o StrArg(args, "country", DEFAULT_COUNTRY) \o "/"
         \o UpstreamPath(op)

\* a plausible bug: Python truthiness (`if full_time:`) instead of `is not None`,
\* which drops a flag supplied as false
BoolQueryTruthy(args) ==
    [name \in {n \in BoolParams \cap DOMAIN args : BoolOf(args[n])} |-> "1"]

\* `if flag is not None: params[flag] = 1 if flag else 0`; the int is written
\* into the query string in decimal
BoolQuery(args) ==
    [name \in BoolParams \cap DOMAIN args |->
        ToString(IF BoolOf(args[name]) THEN 1 ELSE 0)]

\* `if name: params[name] = name`: None and "" are both skipped
StrQuery(op, args) ==
    [name \in {n \in StrParams(op) \cap DOMAIN args : args[n] # ""} |-> args[name]]

\* a plausible bug: Python truthiness (`if distance:`), which drops a 0
IntQueryTruthy(op, args) ==
    [name \in {n \in IntParams(op) \cap DOMAIN args : IntOf(args[n]) # 0}
        |-> ToString(IntOf(args[name]))]

\* `if name is not None: params[name] = name`
IntQuery(op, args) ==
    [name \in IntParams(op) \cap DOMAIN args |-> ToString(IntOf(args[name]))]

Credentials == [app_id |-> ADZUNA_APP_ID, app_key |-> ADZUNA_APP_KEY]

\* a plausible bug: the params dict of search_jobs, marker included, pasted
\* into the other handlers
ParamsMarkerEverywhere(op, args) ==
    IF op = "search_jobs"
    THEN Credentials
         @@ [results_per_page |->
                ToString(IntArg(args, "results_per_page", DEFAULT_RESULTS_PER_PAGE))]
         @@ [name \in {"what"} \cap DOMAIN args |-> args[name]]
         @@ ("content-type" :> "application/json")
         @@ StrQuery(op, args) @@ BoolQuery(args) @@ IntQuery(op, args)
    ELSE Credentials @@ ("content-type" :> "application/json")
         @@ StrQuery(op, args) @@ IntQuery(op, args)

\* a plausible bug: the handler forwards the query of the request it received
ParamsForwardAll(op, args) ==
    (IF op = "search_jobs"
     THEN Credentials
          @@ [results_per_page |->
                 ToString(IntArg(args, "results_per_page", DEFAULT_RESULTS_PER_PAGE))]
          @@ [name \in {"what"} \cap DOMAIN args |-> args[name]]
          @@ ("content-type" :> "application/json")
          @@ StrQuery(op, args) @@ BoolQuery(args) @@ IntQuery(op, args)
     ELSE Credentials @@ StrQuery(op, args) @@ IntQuery(op, args))
    @@ [name \in DOMAIN args \ {"country", "page"} |-> args[name]]

\* the params dict of each handler, as the query string carries it
Params(op, args) ==
    IF op = "search_jobs"
    THEN Credentials
         @@ [results_per_page |->
                ToString(IntArg(args, "results_per_page", DEFAULT_RESULTS_PER_PAGE))]
         @@ [name \in {"what"} \cap DOMAIN args |-> args[name]]
         @@ ("content-type" :> "application/json")
         @@ StrQuery(op, args) @@ BoolQuery(args) @@ IntQuery(op, args)
    ELSE Credentials @@ StrQuery(op, args) @@ IntQuery(op, args)

\* a plausible bug: `and` in place of `or`
CredentialsMissingBoth == ADZUNA_APP_ID = "" /\ ADZUNA_APP_KEY = ""

\* `if not ADZUNA_APP_ID or not ADZUNA_APP_KEY`
CredentialsMissing == ADZUNA_APP_ID = "" \/ ADZUNA_APP_KEY = ""

-----------------------------------------------------------------------------
(* The outbound GET and the upstream's possible replies *)

API_HOST == "https://api.adzuna.com"

\* insertion order of the keys of the handlers' params dicts
QueryKeyOrder ==
    <<"app_id", "app_key", "results_per_page", "what", "content-type", "where",
      "sort_by", "full_time", "part_time", "contract", "permanent", "what_and",
      "what_phrase", "what_or", "what_exclude", "title_only", "distance",
      "location0", "location1", "location2", "location3", "location4",
      "location5", "location6", "location7", "max_days_old", "category",
      "sort_dir", "salary_include_unknown", "company", "months">>

\* percent-encoding of a query value (the only reserved character the model's
\* values contain is the "/" of the content-type marker)
Quote(v) == IF v = "application/json" THEN "application%2Fjson" ELSE v

RECURSIVE QueryString(_, _, _)
\* key=value pairs of params joined by "&", in dict order
QueryString(params, keys, sep) ==
    IF keys = <<>> THEN ""
    ELSE IF Head(keys) \in DOMAIN params
    THEN sep \o Head(keys) \o "=" \o Quote(params[Head(keys)])
         \o QueryString(params, Tail(keys), "&")
    ELSE QueryString(params, Tail(keys), sep)

\* the URL requests prepares: endpoint?query
PreparedUrl(out) == out.url \o QueryString(out.params, QueryKeyOrder, "?")

\* requests.get(endpoint, params=params, timeout=10) issued for request r
Outbound(r, op, args) ==
    [rid |-> r, method |-> "GET", url |-> Endpoint(op, args),
     params |-> Params(op, args), timeout |-> REQUEST_TIMEOUT]

NoBody == [t |-> "none"]

\* a reply of the upstream to one outbound call
OkReply(body) == [kind |-> "ok", status |-> 200, reason |-> "OK", body |-> body]
HttpError(status, reason) ==
    [kind |-> "http", status |-> status, reason |-> reason, body |-> NoBody]
ConnError == [kind |-> "conn", status |-> 0, reason |-> "", body |-> NoBody]
Timeout == [kind |-> "timeout", status |-> 0, reason |-> "", body |-> NoBody]
BadJson == [kind |-> "badjson", status |-> 200, reason |-> "OK", body |-> NoBody]
NoReply == [kind |-> "none", status |-> 0, reason |-> "", body |-> NoBody]

\* upstream bodies: the scenario of the test-suite and spec, an empty search,
\* a body with markers at three depths and a nested salary field, a
\* non-search body, and a body whose top level is an array
SalaryJob ==
    JObj([title |-> JStr("Senior Data Scientist"), salary_min |-> JNum(80000),
          salary_max |-> JNum(120000)])
BodySearch == JObj([count |-> JNum(2), results |-> JArr(<<SalaryJob>>)])
BodyEmpty == JObj([count |-> JNum(0), results |-> JArr(<<>>)])
BodyMarked ==
    JObj([__CLASS__ |-> JStr("Adzuna::API::Response::JobSearchResults"),
          count |-> JNum(1), mean |-> JNum(5),
          results |-> JArr(<<
              JObj([__CLASS__ |-> JStr("Adzuna::API::Response::Job"),
                    title |-> JStr("Data Analyst"),
                    salary_max |-> JNum(70000),
                    company |-> JObj([__CLASS__ |-> JStr("Adzuna::API::Response::Company"),
                                      display_name |-> JStr("Finance Co"),
                                      salary_min |-> JNum(1)])]),
              JObj([title |-> JStr("Job 2")]) >>)])
BodyLeaderboard ==
    JObj([leaderboard |-> JArr(<<
              JObj([canonical_name |-> JStr("tech-corp"), count |-> JNum(50),
                    salary_min |-> JNum(3)]) >>)])
BodyArray == JArr(<<JObj([title |-> JStr("x")])>>)
\* valid JSON of other shapes than the upstream documents
BodyNullResults == JObj([count |-> JNum(1), results |-> JNull])
BodyScalarItem == JObj([count |-> JNum(1), results |-> JArr(<<SalaryJob, JNum(1)>>)])
BodyNullCount == JObj([count |-> JNull, results |-> JArr(<<>>)])
BodyTextCount == JObj([count |-> JStr("2"), results |-> JArr(<<SalaryJob>>)])
BodyBare == JObj([mean |-> JNum(5)])

Bodies ==
    {BodySearch, BodyEmpty, BodyMarked, BodyLeaderboard, BodyArray,
     BodyNullResults, BodyScalarItem, BodyNullCount, BodyTextCount, BodyBare}

FailureReplies ==
    {HttpError(404, "Not Found"), HttpError(500, "Internal Server Error"),
     ConnError, Timeout, BadJson}

Replies == {OkReply(b) : b \in Bodies} \cup FailureReplies

\* the replies of the specification with several requests in flight
FewReplies ==
    {OkReply(BodySearch), OkReply(BodyMarked),
     HttpError(500, "Internal Server Error"), Timeout}

-----------------------------------------------------------------------------
(* Response Normalizer *)

Success(body) == [status |-> 200, detail |-> "", body |-> body]
Failure(status, detail) == [status |-> status, detail |-> detail, body |-> NoBody]
NoResp == [status |-> 0, detail |-> "", body |-> NoBody]

\* an exception no handler catches: the framework answers 500 with its own text
Unhandled == Failure(500, "Internal Server Error")

\* FastAPI's answer to a request that fails validation
ValidationError == Failure(422, "Unprocessable Entity")

ERROR_PREFIX == "Error calling Adzuna API: "

\* str(e) of the RequestException raised by requests.get, raise_for_status
\* or response.json for this reply
ErrorText(reply, out) ==
    CASE reply.kind = "http" ->
           ToString(reply.status)
           \o (IF reply.status < 500 THEN " Client Error: " ELSE " Server Error: ")
           \o reply.reason \o " for url: " \o PreparedUrl(out)
      [] reply.kind = "conn" ->
           "HTTPSConnectionPool(host='api.adzuna.com', port=443): Max retries exceeded with url: "
           \o SubSeq(PreparedUrl(out), Len(API_HOST) + 1, Len(PreparedUrl(out)))
      [] reply.kind = "timeout" ->
           "HTTPSConnectionPool(host='api.adzuna.com', port=443): Read timed out. (read timeout="
           \o ToString(out.timeout) \o ")"
      [] reply.kind = "badjson" -> "Expecting value: line 1 column 1 (char 0)"

\* for job in results: job.pop('salary_min', None); job.pop('salary_max', None)
PopSalary(job) ==
    JObj([key \in DOMAIN job.m \ {"salary_min", "salary_max"} |-> job.m[key]])

\* a plausible bug: only salary_min is popped
SearchResultsMinOnly(results) ==
    [i \in 1..Len(results.a) |->
        JObj([key \in DOMAIN results.a[i].m \ {"salary_min"} |-> results.a[i].m[key]])]

\* the loop of server.py:295-297 over the cleaned result list
SearchResults(results) ==
    [i \in 1..Len(results.a) |-> PopSalary(results.a[i])]

NotAnInt == [t |-> "invalid"]

\* JobSearchResponse's `count: int` field: the value the response model keeps
\* for v (an int as it is, a string of digits or a bool converted), or
\* NotAnInt when validation fails
count_field(v) ==
    IF v.t = "num" THEN v
    ELSE IF v.t = "str" /\ IsInt(v.s) THEN JNum(IntOf(v.s))
    ELSE IF v.t = "bool" THEN JNum(IF v.b THEN 1 ELSE 0)
    ELSE NotAnInt

\* a plausible bug: the count of the response is the number of results returned
search_jobs_body_recount(body) ==
    LET cleaned_data == remove_class_fields(body)
        results == IF "results" \in DOMAIN cleaned_data.m
                   THEN cleaned_data.m["results"] ELSE JArr(<<>>)
        count == IF "count" \in DOMAIN cleaned_data.m
                 THEN cleaned_data.m["count"] ELSE JNum(0)
    IN  IF cleaned_data.t # "obj" THEN Unhandled
        ELSE IF results.t # "arr" THEN Unhandled
        ELSE IF \E i \in 1..Len(results.a) : results.a[i].t # "obj" THEN Unhandled
        ELSE IF count_field(count) = NotAnInt THEN Unhandled
        ELSE Success(JObj([count |-> JNum(Len(results.a)),
                           results |-> JArr(SearchResults(results))]))

\* a plausible bug: an empty result list is reported as null
search_jobs_body_null_when_empty(body) ==
    LET cleaned_data == remove_class_fields(body)
        results == IF "results" \in DOMAIN cleaned_data.m
                   THEN cleaned_data.m["results"] ELSE JArr(<<>>)
        count == IF "count" \in DOMAIN cleaned_data.m
                 THEN cleaned_data.m["count"] ELSE JNum(0)
    IN  IF cleaned_data.t # "obj" THEN Unhandled
        ELSE IF results.t # "arr" THEN Unhandled
        ELSE IF \E i \in 1..Len(results.a) : results.a[i].t # "obj" THEN Unhandled
        ELSE IF count_field(count) = NotAnInt THEN Unhandled
        ELSE Success(JObj([count |-> count_field(count),
                           results |-> IF Len(results.a) = 0 THEN JNull
                                       ELSE JArr(SearchResults(results))]))

\* server.py:289-302 for a decoded body: None stands for an exception that is
\* not a RequestException (.get on a non-dict, .pop on a non-dict, iteration
\* of a non-iterable, or the response model rejecting count or results)
search_jobs_body(body) ==
    LET cleaned_data == remove_class_fields(body)
        results == IF "results" \in DOMAIN cleaned_data.m
                   THEN cleaned_data.m["results"] ELSE JArr(<<>>)
        count == IF "count" \in DOMAIN cleaned_data.m
                 THEN cleaned_data.m["count"] ELSE JNum(0)
    IN  IF cleaned_data.t # "obj" THEN Unhandled
        ELSE IF results.t # "arr" THEN Unhandled
        ELSE IF \E i \in 1..Len(results.a) : results.a[i].t # "obj" THEN Unhandled
        ELSE IF count_field(count) = NotAnInt THEN Unhandled
        ELSE Success(JObj([count |-> count_field(count),
                           results |-> JArr(SearchResults(results))]))

\* a plausible bug: the body of the search handler pasted into another route
passthrough_body_as_search(body) == search_jobs_body(body)

\* `return remove_class_fields(data)` under response_model=dict
passthrough_body(body) ==
    LET cleaned_data == remove_class_fields(body)
    IN  IF cleaned_data.t # "obj" THEN Unhandled ELSE Success(cleaned_data)

\* a plausible bug: the except clause passes the upstream status through
UpstreamFailureSameStatus(reply, out) ==
    Failure(IF reply.kind = "http" THEN reply.status ELSE 500,
            ERROR_PREFIX \o ErrorText(reply, out))

\* except requests.exceptions.RequestException as e: raise HTTPException(500, ...)
UpstreamFailure(reply, out) == Failure(500, ERROR_PREFIX \o ErrorText(reply, out))

\* a plausible bug: a failed call is papered over with the body of an earlier
\* successful request of the same operation
OutcomeCached(op, reply, out) ==
    IF reply.kind # "ok"
    THEN IF \E q \in DOMAIN req : req[q].pc = "done" /\ req[q].op = op
                                   /\ req[q].resp.status = 200
         THEN req[CHOOSE q \in DOMAIN req : req[q].pc = "done" /\ req[q].op = op
                                            /\ req[q].resp.status = 200].resp
         ELSE UpstreamFailure(reply, out)
    ELSE IF op = "search_jobs" THEN search_jobs_body(reply.body)
    ELSE passthrough_body(reply.body)

\* a plausible bug: the decoding error of response.json() is a ValueError that
\* the except clause does not catch
OutcomeJsonEscapes(op, reply, out) ==
    IF reply.kind = "badjson" THEN Unhandled
    ELSE IF reply.kind # "ok" THEN UpstreamFailure(reply, out)
    ELSE IF op = "search_jobs" THEN search_jobs_body(reply.body)
    ELSE passthrough_body(reply.body)

\* the try/except of every upstream-calling handler, given the reply to its call
Outcome(op, reply, out) ==
    IF reply.kind # "ok" THEN UpstreamFailure(reply, out)
    ELSE IF op = "search_jobs" THEN search_jobs_body(reply.body)
    ELSE passthrough_body(reply.body)

CREDENTIALS_DETAIL_SEARCH ==
    "Adzuna API credentials not configured. Please set ADZUNA_APP_ID and ADZUNA_APP_KEY."
CREDENTIALS_DETAIL == "Adzuna API credentials not configured."

CredentialsFailure(op) ==
    Failure(500, IF op = "search_jobs" THEN CREDENTIALS_DETAIL_SEARCH
                 ELSE CREDENTIALS_DETAIL)

\* a plausible bug: the flag is returned as a JSON boolean, not as str(bool)
health_check_bool ==
    Success(JObj([status |-> JStr("healthy"),
                  credentials_configured |->
                      JBool(ADZUNA_APP_ID # "" /\ ADZUNA_APP_KEY # "")]))

\* health_check (server.py:798-804)
health_check ==
    Success(JObj([status |-> JStr("healthy"),
                  credentials_configured |->
                      JStr(IF ADZUNA_APP_ID # "" /\ ADZUNA_APP_KEY # ""
                           THEN "True" ELSE "False")]))

-----------------------------------------------------------------------------
(* Inputs *)

Request(op, args) == [op |-> op, args |-> args]

\* every way of supplying the five flags: each absent, "true" or "false"
BoolArgs == UNION {[S -> {"true", "false"}] : S \in SUBSET BoolParams}

SearchArgs ==
    { <<>>,
      [what |-> "dev"],
      [what |-> "dev", where |-> "", sort_by |-> "date", distance |-> "0"],
      [what |-> "dev", where |-> "NY", company |-> "", max_days_old |-> "1",
       location0 |-> "UK"],
      [what |-> "dev", country |-> "us", page |-> "2", results_per_page |-> "50"],
      [what |-> "dev", page |-> "0"],
      [what |-> "dev", results_per_page |-> "51"],
      [what |-> "dev", country |-> "gb", page |-> "3"],
      [what |-> "dev", page |-> "x"],
      [what |-> "dev", page |-> "-1"],
      [what |-> "dev", results_per_page |-> "0"],
      [what |-> "dev", results_per_page |-> "ten"],
      [what |-> "dev", page |-> "1", results_per_page |-> "1"],
      [what |-> "dev", salary_min |-> "80000", salary_max |-> "150000"] }

\* the requests of the specification with one request at a time
WideInputs ==
    {Request("search_jobs", b @@ a) : b \in BoolArgs, a \in SearchArgs}
    \cup {Request("search_jobs", [what |-> "dev", full_time |-> "maybe"])}
    \cup {Request("get_salary_histogram", a) :
            a \in { <<>>, [what |-> "engineer"], [what |-> "", category |-> "it-jobs"],
                    [what |-> "ds", country |-> "us", where |-> "California"] }}
    \cup {Request("get_top_companies", a) :
            a \in { <<>>, [what |-> "dev", location0 |-> "UK", location1 |-> ""] }}
    \cup {Request("get_geodata", a) :
            a \in { <<>>, [location0 |-> "UK", category |-> ""] }}
    \cup {Request("get_salary_history", a) :
            a \in { <<>>, [months |-> "0"], [months |-> "6", category |-> "it-jobs"],
                    [months |-> "x"] }}
    \cup {Request("get_categories", a) : a \in { <<>>, [country |-> "us"] }}
    \cup {Request("get_api_version", <<>>), Request("health_check", <<>>)}

\* the requests of the specification with several requests in flight
Inputs ==
    {Request(op, <<>>) : op \in Ops}
    \cup {Request("search_jobs", [what |-> "dev"]),
          Request("search_jobs", [what |-> "dev", page |-> "2"]),
          Request("get_salary_histogram", [what |-> "dev"])}

-----------------------------------------------------------------------------
(* The process environment, load_env and the import of the module *)

\* str.strip() removes these from both ends
Whitespace == {" ", "\t", "\n"}

RECURSIVE LStrip(_)
LStrip(s) ==
    IF Len(s) > 0 /\ SubSeq(s, 1, 1) \in Whitespace
    THEN LStrip(SubSeq(s, 2, Len(s)))
    ELSE s

RECURSIVE RStrip(_)
RStrip(s) ==
    IF Len(s) > 0 /\ SubSeq(s, Len(s), Len(s)) \in Whitespace
    THEN RStrip(SubSeq(s, 1, Len(s) - 1))
    ELSE s

Strip(s) == LStrip(RStrip(s))

StartsWith(s, prefix) ==
    Len(s) >= Len(prefix) /\ SubSeq(s, 1, Len(prefix)) = prefix

\* the positions of "=" in s
EqualsAt(s) == {i \in 1..Len(s) : SubSeq(s, i, i) = "="}

\* line.split("=", 1) of a line that contains "=": cut at the first one
SplitFirst(line) ==
    LET i == CHOOSE j \in EqualsAt(line) : \A k \in EqualsAt(line) : j <= k
    IN  <<SubSeq(line, 1, i - 1), SubSeq(line, i + 1, Len(line))>>

\* a plausible bug: os.environ[key] = value
setdefault_overwrite(env, key, value) ==
    [k \in DOMAIN env \cup {key} |-> IF k = key THEN value ELSE env[k]]

\* os.environ.setdefault(key, value)
setdefault(env, key, value) ==
    IF key \in DOMAIN env
    THEN env
    ELSE [k \in DOMAIN env \cup {key} |-> IF k = key THEN value ELSE env[k]]

\* one iteration of the loop over the file's lines
load_line(env, raw_line) ==
    LET line == Strip(raw_line)
    IN  IF line = "" \/ StartsWith(line, "#") \/ EqualsAt(line) = {}
        THEN env
        ELSE LET kv == SplitFirst(line)
             IN  setdefault(env, Strip(kv[1]), Strip(kv[2]))

RECURSIVE load_lines(_, _)
load_lines(env, lines) ==
    IF lines = <<>>
    THEN env
    ELSE load_lines(load_line(env, Head(lines)), Tail(lines))

NoFile == [exists |-> FALSE, lines |-> <<>>]
EnvFile(lines) == [exists |-> TRUE, lines |-> lines]

\* load_env(path): the environment after the call
load_env(env, file) ==
    IF ~file.exists THEN env ELSE load_lines(env, file.lines)

\* os.getenv(name, default)
getenv(env, name, default) ==
    IF name \in DOMAIN env THEN env[name] ELSE default

CredentialNames == {"ADZUNA_APP_ID", "ADZUNA_APP_KEY"}

\* lines a .env file holds: assignments, with and without blanks around the
\* parts, a value that contains "=", a comment, a blank line, a line without "="
EnvLines ==
    { "ADZUNA_APP_ID=file_id\n",
      "  ADZUNA_APP_KEY = file_key \n",
      "ADZUNA_APP_ID=a=b\n",
      "# ADZUNA_APP_KEY=commented\n",
      "\n",
      "ADZUNA_APP_KEY" }

RECURSIVE SeqsUpTo(_, _)
\* the sequences of at most n elements of S
SeqsUpTo(S, n) ==
    IF n = 0
    THEN {<<>>}
    ELSE LET shorter == SeqsUpTo(S, n - 1)
         IN  shorter \cup {Append(q, x) : q \in shorter, x \in S}

EnvFiles == {NoFile} \cup {EnvFile(lines) : lines \in SeqsUpTo(EnvLines, MaxLines)}

\* environments a process starts with: each credential variable absent, set
\* to the empty string, or set to a value
Envs ==
    UNION {[S -> {"", "env_value"}] : S \in SUBSET CredentialNames}

\* tests/conftest.py: the environments the test suite starts the server in
TEST_APP_ID == "test_app_id"
TEST_APP_KEY == "test_app_key"

mock_env_vars(env) ==
    [k \in DOMAIN env \cup CredentialNames |->
        CASE k = "ADZUNA_APP_ID" -> TEST_APP_ID
          [] k = "ADZUNA_APP_KEY" -> TEST_APP_KEY
          [] OTHER -> env[k]]

env_without_credentials(env) ==
    [k \in DOMAIN env \ CredentialNames |-> env[k]]

ServerEnvs ==
    {[k \in S |-> mock_env_vars(<<>>)[k]] : S \in SUBSET CredentialNames}

-----------------------------------------------------------------------------
(* State, and one action per step of a request *)

Req == 1..NReq

\* description= of each route's decorator
Description(op) ==
    CASE op = "search_jobs" -> "Search for job listings on Adzuna with various filters"
      [] op = "get_categories" ->
            "Get a list of available job categories for a specific country"
      [] op = "get_top_companies" ->
            "Get the top companies currently hiring in a specific country"
      [] op = "get_salary_histogram" ->
            "Get salary distribution histogram for job search results"
      [] op = "get_geodata" -> "Provides salary data for locations inside an area"
      [] op = "get_salary_history" ->
            "Provides historical average salary data over time"
      [] op = "get_api_version" -> "Returns the current version of the Adzuna API"
      [] op = "health_check" -> "Check if the API is running and configured"

\* the query parameters a route declares
DeclaredParams(op) ==
    IF op \in {"health_check", "get_api_version"} THEN {}
    ELSE {"country"} \cup StrParams(op) \cup IntParams(op) \cup RequiredParams(op)
         \cup (IF op = "search_jobs"
               THEN {"page", "results_per_page"} \cup BoolParams
               ELSE {})

\* FastApiMCP(app, ...): one tool per operation of the application, named by
\* its operation_id, described by its description, its input schema made of
\* the declared parameters
ToolOf(op) ==
    [name |-> op, description |-> Description(op),
     properties |-> DeclaredParams(op), required |-> RequiredParams(op)]

McpTools == {ToolOf(op) : op \in Ops}

\* the MCP server after mcp.mount_http(): the registry, the replies given so
\* far, and the request slot of the tool call in progress (0: none)
McpServer == [tools |-> McpTools, log |-> <<>>, pending |-> 0]

\* tool calls: valid, missing the required parameter, of an unknown tool
McpCalls ==
    {Request("health_check", <<>>), Request("search_jobs", [country |-> "sg"]),
     Request("search_jobs", [what |-> "dev"]), Request("nonexistent_tool", <<>>)}

McpReplies == {OkReply(BodySearch), HttpError(500, "Internal Server Error")}

Idle == [pc |-> "idle", op |-> "", args |-> <<>>, calls |-> 0,
         reply |-> NoReply, resp |-> NoResp]

\* the server once the module is imported: load_env() has run, the credentials
\* are os.getenv("ADZUNA_APP_ID", "") / os.getenv("ADZUNA_APP_KEY", ""), the
\* routes are declared and the MCP server is mounted
ServerInit ==
    /\ environ0 \in ServerEnvs
    /\ envfile = NoFile
    /\ environ = load_env(environ0, envfile)
    /\ boot = "ready"
    /\ ADZUNA_APP_ID = getenv(environ, "ADZUNA_APP_ID", "")
    /\ ADZUNA_APP_KEY = getenv(environ, "ADZUNA_APP_KEY", "")
    /\ req = [r \in Req |-> Idle]
    /\ loop = 0
    /\ sent = <<>>
    /\ mcp = McpServer

\* a request reaches the server; requests are numbered in order of arrival
Arrive(r, inputs) ==
    /\ req[r].pc = "idle"
    /\ (IF r = 1 THEN TRUE ELSE req[r - 1].pc # "idle")
    /\ \E i \in inputs :
        req' = [req EXCEPT ![r] = [@ EXCEPT !.pc = "arrived", !.op = i.op,
                                             !.args = i.args]]
    /\ UNCHANGED <<ADZUNA_APP_ID, ADZUNA_APP_KEY, loop, sent, rcfVars, envVars, mcp>>

\* Every route is `async def` and calls the blocking requests.get without an
\* await: a handler occupies the event loop from its start to its return.
LoopFree == loop = 0

Finish(r, resp) ==
    req' = [req EXCEPT ![r] = [@ EXCEPT !.pc = "done", !.resp = resp]]

\* a plausible bug: parameters declared Optional and checked by hand inside
\* the handler, after its credential check
RejectAfterCredentials(r) ==
    /\ req[r].pc = "arrived"
    /\ LoopFree
    /\ ~ValidRequest(req[r].op, req[r].args)
    /\ Finish(r, IF req[r].op \in UpstreamOps /\ CredentialsMissing
                 THEN CredentialsFailure(req[r].op)
                 ELSE ValidationError)
    /\ UNCHANGED <<ADZUNA_APP_ID, ADZUNA_APP_KEY, loop, sent, rcfVars, envVars, mcp>>

\* the framework rejects the request before the handler body runs
Reject(r) ==
    /\ req[r].pc = "arrived"
    /\ LoopFree
    /\ ~ValidRequest(req[r].op, req[r].args)
    /\ Finish(r, ValidationError)
    /\ UNCHANGED <<ADZUNA_APP_ID, ADZUNA_APP_KEY, loop, sent, rcfVars, envVars, mcp>>

HealthCheck(r) ==
    /\ req[r].pc = "arrived"
    /\ LoopFree
    /\ req[r].op = "health_check"
    /\ ValidRequest(req[r].op, req[r].args)
    /\ Finish(r, health_check)
    /\ UNCHANGED <<ADZUNA_APP_ID, ADZUNA_APP_KEY, loop, sent, rcfVars, envVars, mcp>>

\* the credential check at the top of every upstream-calling handler
NoCredentials(r) ==
    /\ req[r].pc = "arrived"
    /\ LoopFree
    /\ req[r].op \in UpstreamOps
    /\ ValidRequest(req[r].op, req[r].args)
    /\ CredentialsMissing
    /\ Finish(r, CredentialsFailure(req[r].op))
    /\ UNCHANGED <<ADZUNA_APP_ID, ADZUNA_APP_KEY, loop, sent, rcfVars, envVars, mcp>>

\* the handler builds endpoint and params and calls requests.get
Dispatch(r) ==
    /\ req[r].pc = "arrived"
    /\ LoopFree
    /\ req[r].op \in UpstreamOps
    /\ ValidRequest(req[r].op, req[r].args)
    /\ ~CredentialsMissing
    /\ sent' = Append(sent, Outbound(r, req[r].op, req[r].args))
    /\ req' = [req EXCEPT ![r] = [@ EXCEPT !.pc = "inflight", !.calls = @ + 1]]
    /\ loop' = r
    /\ UNCHANGED <<ADZUNA_APP_ID, ADZUNA_APP_KEY, rcfVars, envVars, mcp>>

\* the outbound call of request r, the last one it issued
OutboundOf(r) ==
    sent[CHOOSE i \in 1..Len(sent) :
            sent[i].rid = r /\ \A j \in (i + 1)..Len(sent) : sent[j].rid # r]

\* a plausible bug: a failed call is retried once
CompleteRetryOnce(r, replies) ==
    /\ req[r].pc = "inflight"
    /\ \E reply \in replies :
        IF reply.kind # "ok" /\ req[r].calls < 2
        THEN /\ sent' = Append(sent, OutboundOf(r))
             /\ req' = [req EXCEPT ![r] = [@ EXCEPT !.calls = @ + 1]]
             /\ loop' = loop
        ELSE /\ req' = [req EXCEPT ![r] = [@ EXCEPT !.pc = "done", !.reply = reply,
                            !.resp = Outcome(req[r].op, reply, OutboundOf(r))]]
             /\ loop' = 0
             /\ sent' = sent
    /\ UNCHANGED <<ADZUNA_APP_ID, ADZUNA_APP_KEY, rcfVars, envVars, mcp>>

\* a plausible bug: the handler answers but the event loop is never handed
\* back, as when the call's completion is awaited on the loop it blocks
CompleteKeepsLoop(r, replies) ==
    /\ req[r].pc = "inflight"
    /\ \E reply \in replies :
        req' = [req EXCEPT ![r] = [@ EXCEPT !.pc = "done", !.reply = reply,
                    !.resp = Outcome(req[r].op, reply, OutboundOf(r))]]
    /\ loop' = loop
    /\ UNCHANGED <<ADZUNA_APP_ID, ADZUNA_APP_KEY, sent, rcfVars, envVars, mcp>>

\* requests.get returns or raises; the handler finishes in the same step
Complete(r, replies) ==
    /\ req[r].pc = "inflight"
    /\ \E reply \in replies :
        req' = [req EXCEPT ![r] = [@ EXCEPT !.pc = "done", !.reply = reply,
                    !.resp = Outcome(req[r].op, reply, OutboundOf(r))]]
    /\ loop' = 0
    /\ UNCHANGED <<ADZUNA_APP_ID, ADZUNA_APP_KEY, sent, rcfVars, envVars, mcp>>

\* a plausible bug: the module-level names are rebound from the environment
\* whenever it changes
EnvChangeReread ==
    /\ boot = "ready"
    /\ \E env \in {mock_env_vars(environ), env_without_credentials(environ)} :
        /\ env # environ
        /\ environ' = env
        /\ ADZUNA_APP_ID' = getenv(env, "ADZUNA_APP_ID", "")
        /\ ADZUNA_APP_KEY' = getenv(env, "ADZUNA_APP_KEY", "")
    /\ UNCHANGED <<req, loop, sent, rcfVars, environ0, envfile, boot, mcp>>

\* the process environment changes after the import, as the test fixtures
\* mock_env_vars and env_without_credentials change it; no handler reads it
EnvChange ==
    /\ boot = "ready"
    /\ \E env \in {mock_env_vars(environ), env_without_credentials(environ)} :
        /\ env # environ
        /\ environ' = env
    /\ UNCHANGED <<srvVars, rcfVars, environ0, envfile, boot, mcp>>

McpLogFull == Len(mcp.log) >= MaxMcp

McpAnswer(method, tools, error) ==
    mcp' = [mcp EXCEPT !.log = Append(@, [method |-> method, tools |-> tools,
                                           error |-> error])]

\* tools/list: the registry as it is
McpToolsList ==
    /\ ~McpLogFull
    /\ McpAnswer("tools/list", mcp.tools, FALSE)
    /\ UNCHANGED <<srvVars, rcfVars, envVars>>

\* a plausible bug: an unknown method tears the registry down
McpInvalidMethodResets ==
    /\ ~McpLogFull
    /\ mcp' = [mcp EXCEPT !.tools = {},
                           !.log = Append(@, [method |-> "invalid/method",
                                              tools |-> {}, error |-> TRUE])]
    /\ UNCHANGED <<srvVars, rcfVars, envVars>>

\* a request with a method the server does not know: an error reply
McpInvalidMethod ==
    /\ ~McpLogFull
    /\ McpAnswer("invalid/method", {}, TRUE)
    /\ UNCHANGED <<srvVars, rcfVars, envVars>>

\* tools/call with a name that is not in the registry: an error reply
McpCallUnknown ==
    /\ ~McpLogFull
    /\ mcp.pending = 0
    /\ \E c \in McpCalls :
        /\ c.op \notin {t.name : t \in mcp.tools}
        /\ McpAnswer("tools/call", {}, TRUE)
    /\ UNCHANGED <<srvVars, rcfVars, envVars>>

\* tools/call of a registered tool: the MCP server sends the request to the
\* route of that operation
McpCallTool ==
    /\ ~McpLogFull
    /\ mcp.pending = 0
    /\ req[1].pc = "idle"
    /\ \E c \in McpCalls :
        /\ c.op \in {t.name : t \in mcp.tools}
        /\ req' = [req EXCEPT ![1] = [@ EXCEPT !.pc = "arrived", !.op = c.op,
                                                 !.args = c.args]]
    /\ mcp' = [mcp EXCEPT !.pending = 1]
    /\ UNCHANGED <<ADZUNA_APP_ID, ADZUNA_APP_KEY, loop, sent, rcfVars, envVars>>

\* the route has answered: the tool call's reply is an error unless the
\* route's status is 200
McpReturn ==
    /\ mcp.pending = 1
    /\ req[1].pc = "done"
    /\ mcp' = [mcp EXCEPT !.pending = 0,
                           !.log = Append(@, [method |-> "tools/call", tools |-> {},
                                              error |-> req[1].resp.status # 200])]
    /\ req' = [req EXCEPT ![1] = Idle]
    /\ UNCHANGED <<ADZUNA_APP_ID, ADZUNA_APP_KEY, loop, sent, rcfVars, envVars>>

\* several requests, each with few inputs
Init ==
    /\ ServerInit
    /\ data = JNull
    /\ cleaned = NotRun
    /\ cleaned2 = NotRun
    /\ call = NoCall

Next ==
    \/ \E r \in Req :
        \/ Arrive(r, Inputs)
        \/ Reject(r)
        \/ HealthCheck(r)
        \/ NoCredentials(r)
        \/ Dispatch(r)
        \/ Complete(r, FewReplies)
    \/ EnvChange

Spec == Init /\ [][Next]_vars

\* concurrent requests of each kind of handling: no upstream call, an
\* upstream call, rejected by validation
LiveInputs ==
    {Request("health_check", <<>>), Request("search_jobs", [what |-> "dev"]),
     Request("search_jobs", <<>>)}

\* the ways an outbound call ends: it returns, it raises, it times out
LiveReplies == {OkReply(BodySearch), HttpError(500, "Internal Server Error"), Timeout}

NextLive ==
    \E r \in Req :
        \/ Arrive(r, LiveInputs)
        \/ Reject(r)
        \/ HealthCheck(r)
        \/ NoCredentials(r)
        \/ Dispatch(r)
        \/ Complete(r, LiveReplies)

\* the event loop runs the handler of every request that has arrived, and
\* every outbound call returns, raises or hits its timeout; nothing obliges a
\* client to send a request
SpecLive ==
    /\ Init
    /\ [][NextLive]_vars
    /\ \A r \in Req :
        /\ WF_vars(Reject(r) \/ HealthCheck(r) \/ NoCredentials(r) \/ Dispatch(r))
        /\ WF_vars(Complete(r, LiveReplies))

\* one request, with every input and every reply
NextWide ==
    \/ Arrive(1, WideInputs)
    \/ Reject(1)
    \/ HealthCheck(1)
    \/ NoCredentials(1)
    \/ Dispatch(1)
    \/ Complete(1, Replies)

SpecWide == Init /\ [][NextWide]_vars

-----------------------------------------------------------------------------
(* remove_class_fields step by step.  Dicts and lists are cells of a heap, *)
(* named by their address; a slot holds a scalar or the address of a cell. *)
(* Scalars (None, bool, int, str) are immutable and held in the slot.      *)

Ref(n) == [t |-> "ref", at |-> n]
IsRef(slot) == slot.t = "ref"

RECURSIVE Load(_, _)
RECURSIVE LoadObj(_, _, _, _)
RECURSIVE LoadArr(_, _, _)

\* response.json(): the decoded value v stored in the heap, every dict and
\* list in a cell of its own; the result is the new heap and v's slot
Load(heap, v) ==
    IF v.t = "obj" THEN LoadObj(heap, v.m, DOMAIN v.m, <<>>)
    ELSE IF v.t = "arr" THEN LoadArr(heap, v.a, <<>>)
    ELSE [heap |-> heap, slot |-> v]

LoadObj(heap, m, keys, slots) ==
    IF keys = {}
    THEN [heap |-> Append(heap, [t |-> "obj", m |-> slots]), slot |-> Ref(Len(heap) + 1)]
    ELSE LET key == CHOOSE k \in keys : TRUE
             child == Load(heap, m[key])
         IN  LoadObj(child.heap, m, keys \ {key}, slots @@ (key :> child.slot))

LoadArr(heap, a, slots) ==
    IF Len(slots) = Len(a)
    THEN [heap |-> Append(heap, [t |-> "arr", a |-> slots]), slot |-> Ref(Len(heap) + 1)]
    ELSE LET child == Load(heap, a[Len(slots) + 1])
         IN  LoadArr(child.heap, a, Append(slots, child.slot))

RECURSIVE Deref(_, _)
\* the JSON value a slot stands for
Deref(heap, slot) ==
    IF ~IsRef(slot) THEN slot
    ELSE LET cell == heap[slot.at]
         IN  IF cell.t = "obj"
             THEN JObj([key \in DOMAIN cell.m |-> Deref(heap, cell.m[key])])
             ELSE JArr([i \in 1..Len(cell.a) |-> Deref(heap, cell.a[i])])

\* the keys or indexes remove_class_fields calls itself on, given the slot of
\* its argument: the keys other than "__CLASS__", or every index
ChildKeys(heap, slot) ==
    IF ~IsRef(slot) THEN {}
    ELSE IF heap[slot.at].t = "obj" THEN DOMAIN heap[slot.at].m \ {CLASS_KEY}
    ELSE 1..Len(heap[slot.at].a)

ChildSlot(heap, slot, key) ==
    IF heap[slot.at].t = "obj" THEN heap[slot.at].m[key] ELSE heap[slot.at].a[key]

\* a frame of the call stack: the argument, and the results of the recursive
\* calls made so far (key or index |-> slot)
Frame(slot) == [data |-> slot, made |-> <<>>]

Pending(heap, frame) == ChildKeys(heap, frame.data) \ DOMAIN frame.made

\* the next key of the comprehension: items in list order, keys in dict order
NextKey(heap, frame) ==
    IF heap[frame.data.at].t = "arr"
    THEN Len(heap[frame.data.at].a) - Cardinality(Pending(heap, frame)) + 1
    ELSE CHOOSE key \in Pending(heap, frame) : TRUE

\* a plausible bug: a list is cleaned in place and returned
BuiltInPlace(heap, frame) ==
    IF ~IsRef(frame.data) THEN [heap |-> heap, slot |-> frame.data]
    ELSE IF heap[frame.data.at].t = "obj"
    THEN [heap |-> Append(heap, [t |-> "obj", m |-> frame.made]),
          slot |-> Ref(Len(heap) + 1)]
    ELSE [heap |-> [heap EXCEPT ![frame.data.at] = [t |-> "arr", a |-> frame.made]],
          slot |-> frame.data]

\* the value a call returns once its recursive calls are made: the scalar
\* itself, or a new dict or list built by the comprehension
Built(heap, frame) ==
    IF ~IsRef(frame.data) THEN [heap |-> heap, slot |-> frame.data]
    ELSE IF heap[frame.data.at].t = "obj"
    THEN [heap |-> Append(heap, [t |-> "obj", m |-> frame.made]),
          slot |-> Ref(Len(heap) + 1)]
    ELSE [heap |-> Append(heap, [t |-> "arr", a |-> frame.made]),
          slot |-> Ref(Len(heap) + 1)]

\* data = response.json(); remove_class_fields(data) is called
Enter ==
    /\ call.pc = "parsed"
    /\ call' = [call EXCEPT !.pc = "running", !.stack = <<Frame(call.root)>>]
    /\ UNCHANGED <<srvVars, data, cleaned, cleaned2, envVars, mcp>>

\* a plausible bug: the comprehension calls remove_class_fields(data) for
\* every item, not remove_class_fields(item) (until the stack overflows)
CallSameValue ==
    /\ call.pc = "running"
    /\ Len(call.stack) <= MaxNodes
    /\ LET top == call.stack[Len(call.stack)]
       IN  /\ Pending(call.heap, top) # {}
           /\ call' = [call EXCEPT !.stack = Append(@, Frame(top.data))]
    /\ UNCHANGED <<srvVars, data, cleaned, cleaned2, envVars, mcp>>

\* the running call makes its next recursive call
Call ==
    /\ call.pc = "running"
    /\ LET top == call.stack[Len(call.stack)]
       IN  /\ Pending(call.heap, top) # {}
           /\ call' = [call EXCEPT !.stack =
                  Append(@, Frame(ChildSlot(call.heap, top.data,
                                            NextKey(call.heap, top))))]
    /\ UNCHANGED <<srvVars, data, cleaned, cleaned2, envVars, mcp>>

\* the running call has made all its recursive calls and returns
Return ==
    /\ call.pc = "running"
    /\ LET depth == Len(call.stack)
           top == call.stack[depth]
           built == Built(call.heap, top)
       IN  /\ Pending(call.heap, top) = {}
           /\ IF depth = 1
              THEN /\ call' = [call EXCEPT !.pc = "returned", !.heap = built.heap,
                                           !.stack = <<>>, !.ret = built.slot]
                   /\ cleaned' = Deref(built.heap, built.slot)
              ELSE /\ call' = [call EXCEPT
                        !.heap = built.heap,
                        !.stack = [SubSeq(call.stack, 1, depth - 1) EXCEPT
                            ![depth - 1].made =
                                @ @@ (NextKey(call.heap, call.stack[depth - 1])
                                        :> built.slot)]]
                   /\ cleaned' = cleaned
    /\ UNCHANGED <<srvVars, data, cleaned2, envVars, mcp>>

RECURSIVE PopLoop(_, _, _)
\* for job in results: job.pop('salary_min', None); job.pop('salary_max', None)
\* the loop ends at the first item that is not a dict
PopLoop(heap, items, i) ==
    IF i > Len(items) THEN heap
    ELSE IF ~IsRef(items[i]) THEN heap
    ELSE IF heap[items[i].at].t # "obj" THEN heap
    ELSE PopLoop([heap EXCEPT ![items[i].at].m =
                      [key \in DOMAIN @ \ {"salary_min", "salary_max"} |-> @[key]]],
                 items, i + 1)

\* results = cleaned_data.get("results", []) and the loop over it, on the heap
PopResults ==
    /\ call.pc = "returned"
    /\ LET ret == call.ret
           results == IF IsRef(ret) /\ call.heap[ret.at].t = "obj"
                         /\ "results" \in DOMAIN call.heap[ret.at].m
                      THEN call.heap[ret.at].m["results"]
                      ELSE NotRun
       IN  call' = [call EXCEPT
               !.pc = "popped",
               !.heap = IF IsRef(results) /\ call.heap[results.at].t = "arr"
                        THEN PopLoop(call.heap, call.heap[results.at].a, 1)
                        ELSE call.heap]
    /\ UNCHANGED <<srvVars, data, cleaned, cleaned2, envVars, mcp>>

\* the payloads of the step-by-step specification
CallInputs == JsonValues \cup Bodies

InitCall ==
    /\ ServerInit
    /\ environ0 = <<>>
    /\ data \in CallInputs
    /\ cleaned = NotRun
    /\ cleaned2 = NotRun
    /\ call = [pc |-> "parsed", heap |-> Load(<<>>, data).heap,
               root |-> Load(<<>>, data).slot, stack |-> <<>>, ret |-> NotRun]

NextCall == Enter \/ Call \/ Return \/ PopResults

SpecCall == InitCall /\ [][NextCall]_vars

\* a Python call in progress is not suspended: every step is taken
SpecCallFair == SpecCall /\ WF_vars(NextCall)

\* remove_class_fields applied to every JSON value of at most MaxNodes nodes
InitRCF ==
    /\ ServerInit
    /\ environ0 = <<>>
    /\ data \in JsonValues
    /\ cleaned = NotRun
    /\ cleaned2 = NotRun
    /\ call = NoCall

Normalize ==
    /\ cleaned = NotRun
    /\ cleaned' = remove_class_fields(data)
    /\ UNCHANGED <<srvVars, data, cleaned2, call, envVars, mcp>>

\* remove_class_fields applied to a value it returned
NormalizeAgain ==
    /\ cleaned # NotRun
    /\ cleaned2 = NotRun
    /\ cleaned2' = remove_class_fields(cleaned)
    /\ UNCHANGED <<srvVars, data, cleaned, call, envVars, mcp>>

NextRCF == Normalize \/ NormalizeAgain

SpecRCF == InitRCF /\ [][NextRCF]_vars

\* the import of server.py, from every environment and every .env file
InitEnv ==
    /\ environ0 \in Envs
    /\ environ = environ0
    /\ envfile \in EnvFiles
    /\ boot = "start"
    /\ ADZUNA_APP_ID = ""
    /\ ADZUNA_APP_KEY = ""
    /\ req = [r \in Req |-> Idle]
    /\ loop = 0
    /\ sent = <<>>
    /\ mcp = McpServer
    /\ data = JNull
    /\ cleaned = NotRun
    /\ cleaned2 = NotRun
    /\ call = NoCall

\* load_env() (server.py:46)
LoadEnv ==
    /\ boot = "start"
    /\ environ' = load_env(environ, envfile)
    /\ boot' = "loaded"
    /\ UNCHANGED <<srvVars, rcfVars, environ0, envfile, mcp>>

\* ADZUNA_APP_ID = os.getenv(...); ADZUNA_APP_KEY = os.getenv(...) (server.py:49-50)
ReadCredentials ==
    /\ boot = "loaded"
    /\ ADZUNA_APP_ID' = getenv(environ, "ADZUNA_APP_ID", "")
    /\ ADZUNA_APP_KEY' = getenv(environ, "ADZUNA_APP_KEY", "")
    /\ boot' = "ready"
    /\ UNCHANGED <<req, loop, sent, rcfVars, environ, environ0, envfile, mcp>>

NextEnv == LoadEnv \/ ReadCredentials

SpecEnv == InitEnv /\ [][NextEnv]_vars

\* MCP requests, one tool call at a time
NextMcp ==
    \/ McpToolsList
    \/ McpInvalidMethod
    \/ McpCallUnknown
    \/ McpCallTool
    \/ Reject(1)
    \/ HealthCheck(1)
    \/ NoCredentials(1)
    \/ Dispatch(1)
    \/ Complete(1, McpReplies)
    \/ McpReturn

SpecMcp == Init /\ [][NextMcp]_vars

-----------------------------------------------------------------------------
(* Properties *)

\* the outbound calls issued for request r
CallsFor(r) == {i \in 1..Len(sent) : sent[i].rid = r}

IsDone(r) == req[r].pc = "done"

RECURSIVE StrippedOf(_, _)
\* out is v with every "__CLASS__" key removed at every depth and nothing
\* else changed: same type, same other keys, same array lengths and order
StrippedOf(out, v) ==
    /\ out.t = v.t
    /\ CASE v.t = "obj" ->
              /\ DOMAIN out.m = {k \in DOMAIN v.m : k # "__CLASS__"}
              /\ \A k \in DOMAIN out.m : StrippedOf(out.m[k], v.m[k])
         [] v.t = "arr" ->
              /\ Len(out.a) = Len(v.a)
              /\ \A i \in 1..Len(v.a) : StrippedOf(out.a[i], v.a[i])
         [] OTHER -> out = v

\* C1: a valid request to an upstream-calling operation, made while the
\* stored app id or app key is empty, never issues an outbound call and ends
\* in a failure with status 500.
C1_NoCredentialsNoCall ==
    \A r \in Req :
        (/\ ADZUNA_APP_ID = "" \/ ADZUNA_APP_KEY = ""
         /\ req[r].op \in UpstreamOps
         /\ ValidRequest(req[r].op, req[r].args))
        => /\ CallsFor(r) = {}
           /\ req[r].pc # "inflight"
           /\ IsDone(r) => req[r].resp.status = 500 /\ req[r].resp.body = NoBody

C1_Witness ==
    /\ ADZUNA_APP_ID # "" /\ ADZUNA_APP_KEY = ""
    /\ IsDone(1) /\ req[1].op = "get_api_version"
    /\ req[1].resp.status = 500 /\ sent = <<>>

\* C2: remove_class_fields(v) is v with every object key equal to
\* "__CLASS__" removed at every depth; other keys, values, array lengths and
\* element order are unchanged.
C2_ClassFieldsRemoved ==
    cleaned # NotRun => StrippedOf(cleaned, data)

C2_Witness ==
    /\ cleaned # NotRun
    /\ data.t = "obj"
    /\ DOMAIN data.m = {"__CLASS__", "title"}
    /\ data.m["title"].t = "obj"
    /\ DOMAIN data.m["title"].m = {"__CLASS__"}
    /\ cleaned = JObj([title |-> JObj(<<>>)])

\* C3: in a successful search response every element of results lacks
\* salary_min and salary_max, and is otherwise the upstream element (its
\* "__CLASS__" markers removed); the scenario body yields count 2 and the one
\* job with its title only.
C3_SalaryRemoved ==
    \A r \in Req :
        (IsDone(r) /\ req[r].op = "search_jobs" /\ req[r].resp.status = 200)
        => LET up == IF "results" \in DOMAIN req[r].reply.body.m
                     THEN req[r].reply.body.m["results"].a ELSE <<>>
               out == req[r].resp.body.m["results"].a
           IN  /\ Len(out) = Len(up)
               /\ \A i \in 1..Len(up) :
                    /\ DOMAIN out[i].m =
                         {k \in DOMAIN up[i].m :
                            k \notin {"salary_min", "salary_max", "__CLASS__"}}
                    /\ \A k \in DOMAIN out[i].m : StrippedOf(out[i].m[k], up[i].m[k])
               /\ req[r].reply.body = BodySearch =>
                    req[r].resp.body =
                      JObj([count |-> JNum(2),
                            results |-> JArr(<<JObj([title |-> JStr("Senior Data Scientist")])>>)])

C3_Witness ==
    /\ IsDone(1) /\ req[1].op = "search_jobs"
    /\ req[1].reply.body = BodySearch
    /\ req[1].resp.status = 200

\* C4: when the outbound call fails by a network error, a timeout or a
\* non-2xx status, the response is a failure with status 500 whose message
\* is "Error calling Adzuna API: " followed by the text of the error.
C4_UpstreamFailure ==
    \A r \in Req :
        (IsDone(r) /\ req[r].reply.kind \in {"http", "conn", "timeout"})
        => /\ req[r].resp.status = 500
           /\ req[r].resp.body = NoBody
           /\ req[r].resp.detail =
                "Error calling Adzuna API: " \o ErrorText(req[r].reply, OutboundOf(r))
           /\ Len(ErrorText(req[r].reply, OutboundOf(r))) > 0

C4_Witness ==
    /\ IsDone(1) /\ req[1].op = "get_top_companies"
    /\ req[1].reply.kind = "http" /\ req[1].reply.status = 404
    /\ req[1].resp.status = 500

\* C5: a search request without `what` fails with status 422 and issues no
\* outbound call.
C5_SearchRequiresWhat ==
    \A r \in Req :
        (req[r].op = "search_jobs" /\ "what" \notin DOMAIN req[r].args)
        => /\ CallsFor(r) = {}
           /\ req[r].pc # "inflight"
           /\ IsDone(r) => req[r].resp.status = 422

C5_Witness ==
    /\ ADZUNA_APP_ID # "" /\ ADZUNA_APP_KEY # ""
    /\ IsDone(1) /\ req[1].op = "search_jobs" /\ "what" \notin DOMAIN req[1].args
    /\ req[1].resp.status = 422 /\ sent = <<>>

\* C6: a salary-histogram request without `what` fails with status 422 and
\* issues no outbound call.
C6_HistogramRequiresWhat ==
    \A r \in Req :
        (req[r].op = "get_salary_histogram" /\ "what" \notin DOMAIN req[r].args)
        => /\ CallsFor(r) = {}
           /\ IsDone(r) => req[r].resp.status = 422

\* C7: each of full_time, part_time, contract, permanent and
\* salary_include_unknown is "1" in the outbound query when supplied true,
\* "0" when supplied false, and absent when not supplied.
C7_BoolTriState ==
    \A i \in 1..Len(sent) :
        req[sent[i].rid].op = "search_jobs" =>
            \A b \in {"full_time", "part_time", "contract", "permanent",
                      "salary_include_unknown"} :
                LET args == req[sent[i].rid].args
                    q == sent[i].params
                IN  /\ b \notin DOMAIN args => b \notin DOMAIN q
                    /\ b \in DOMAIN args =>
                        /\ b \in DOMAIN q
                        /\ args[b] \in {"true", "1"} => q[b] = "1"
                        /\ args[b] \in {"false", "0"} => q[b] = "0"
                        /\ q[b] \in {"0", "1"}

C7_Witness ==
    /\ Len(sent) = 1
    /\ req[1].args = [what |-> "dev", full_time |-> "true", part_time |-> "false",
                      salary_include_unknown |-> "false"]
    /\ sent[1].params["full_time"] = "1"
    /\ sent[1].params["part_time"] = "0"
    /\ sent[1].params["salary_include_unknown"] = "0"
    /\ "contract" \notin DOMAIN sent[1].params
    /\ "permanent" \notin DOMAIN sent[1].params

\* C8: a request that passes the credential and parameter checks issues
\* exactly one outbound GET with a 10-second timeout; no request issues more
\* than one call, whatever the reply.
C8_ExactlyOneCall ==
    \A r \in Req :
        /\ Cardinality(CallsFor(r)) =< 1
        /\ \A i \in CallsFor(r) : sent[i].method = "GET" /\ sent[i].timeout = 10
        /\ (/\ req[r].pc \in {"inflight", "done"}
            /\ req[r].op \in UpstreamOps
            /\ ValidRequest(req[r].op, req[r].args)
            /\ ADZUNA_APP_ID # "" /\ ADZUNA_APP_KEY # "")
           => Cardinality(CallsFor(r)) = 1

C8_Witness ==
    /\ IsDone(1) /\ req[1].reply.kind = "badjson"
    /\ Cardinality(CallsFor(1)) = 1

\* C9: while the outbound call of one request is in flight, another request
\* that has arrived can be handled without waiting for that call.
C9_OthersNotBlocked ==
    \A r, q \in Req :
        (r # q /\ req[r].pc = "inflight" /\ req[q].pc = "arrived")
        => ENABLED (Reject(q) \/ HealthCheck(q) \/ NoCredentials(q) \/ Dispatch(q))

\* C10: the outcome of a request depends only on the stored credentials, its
\* own parameters and the reply to its own call: a failed call gives a
\* failure whatever earlier requests returned, and two requests with the same
\* operation, parameters and reply get the same response.
C10_NoCarryOver ==
    \A r \in Req :
        IsDone(r) =>
            /\ (req[r].reply.kind \notin {"ok", "none"}) =>
                    req[r].resp.status = 500 /\ req[r].resp.body = NoBody
            /\ \A q \in Req :
                (/\ IsDone(q) /\ req[q].op = req[r].op /\ req[q].args = req[r].args
                 /\ req[q].reply = req[r].reply)
                => req[q].resp = req[r].resp

C10_Witness ==
    /\ IsDone(1) /\ IsDone(2)
    /\ req[1].op = "search_jobs" /\ req[1].resp.status = 200
    /\ req[2].op = "search_jobs" /\ req[2].args = req[1].args
    /\ req[2].reply.kind = "timeout" /\ req[2].resp.status = 500

\* C11: in every state reached by handling requests, in any interleaving and
\* whether they succeed or fail, the stored app id and app key are the values
\* read from the environment at process start, whatever the environment has
\* become since.
C11_CredentialsReadOnly ==
    /\ ADZUNA_APP_ID = getenv(load_env(environ0, envfile), "ADZUNA_APP_ID", "")
    /\ ADZUNA_APP_KEY = getenv(load_env(environ0, envfile), "ADZUNA_APP_KEY", "")

C11_Witness ==
    /\ environ0 = [ADZUNA_APP_ID |-> TEST_APP_ID, ADZUNA_APP_KEY |-> TEST_APP_KEY]
    /\ environ = <<>>
    /\ ADZUNA_APP_ID = TEST_APP_ID /\ ADZUNA_APP_KEY = TEST_APP_KEY
    /\ IsDone(1) /\ req[1].reply.kind = "ok" /\ req[1].resp.status = 200
    /\ IsDone(2) /\ req[2].reply.kind = "timeout" /\ req[2].resp.status = 500

\* C12: a search whose upstream reply reports zero matches (count 0 and an
\* empty result list) succeeds with body {count: 0, results: []}: results is
\* present and is an empty list, not null.
C12_EmptySearch ==
    (/\ IsDone(1)
     /\ req[1].op = "search_jobs"
     /\ req[1].reply.kind = "ok"
     /\ req[1].reply.body.t = "obj"
     /\ {"count", "results"} \subseteq DOMAIN req[1].reply.body.m
     /\ req[1].reply.body.m["count"] = JNum(0)
     /\ req[1].reply.body.m["results"] = JArr(<<>>))
    => /\ req[1].resp.status = 200
       /\ req[1].resp.body.t = "obj"
       /\ DOMAIN req[1].resp.body.m = {"count", "results"}
       /\ req[1].resp.body.m["count"] = JNum(0)
       /\ req[1].resp.body.m["results"].t = "arr"
       /\ Len(req[1].resp.body.m["results"].a) = 0

C12_Witness ==
    /\ IsDone(1)
    /\ req[1].op = "search_jobs"
    /\ req[1].reply = OkReply(BodyEmpty)
    /\ req[1].resp.status = 200
    /\ req[1].resp.body = JObj([count |-> JNum(0), results |-> JArr(<<>>)])

\* C13: for every upstream-calling operation, a 2xx reply whose body is not
\* JSON gives a failure of the uniform shape: status 500, no body, and a
\* message made of the prefix "Error calling Adzuna API: " and the decoder's
\* text; it is neither a success nor the framework's unhandled-error reply.
C13_BadJsonIsUniformFailure ==
    (/\ IsDone(1)
     /\ req[1].op \in UpstreamOps
     /\ req[1].reply.kind = "badjson")
    => /\ req[1].reply.status \in 200..299
       /\ req[1].resp.status = 500
       /\ req[1].resp.body = NoBody
       /\ StartsWith(req[1].resp.detail, "Error calling Adzuna API: ")
       /\ req[1].resp.detail =
              "Error calling Adzuna API: Expecting value: line 1 column 1 (char 0)"
       /\ req[1].resp # Unhandled

C13_Witness ==
    /\ IsDone(1)
    /\ req[1].op = "get_categories"
    /\ req[1].reply = BadJson
    /\ req[1].resp.status = 500
    /\ StartsWith(req[1].resp.detail, ERROR_PREFIX)

\* C14: a finished health request has issued no outbound call and has status
\* 200 with body {status: "healthy", credentials_configured: c}, where c is
\* the string "True" when the stored app id and app key are both non-empty
\* and the string "False" otherwise.
C14_Health ==
    \A r \in Req :
        (IsDone(r) /\ req[r].op = "health_check")
        => /\ CallsFor(r) = {}
           /\ req[r].calls = 0
           /\ req[r].resp.status = 200
           /\ req[r].resp.body.t = "obj"
           /\ DOMAIN req[r].resp.body.m = {"status", "credentials_configured"}
           /\ req[r].resp.body.m["status"] = JStr("healthy")
           /\ req[r].resp.body.m["credentials_configured"] =
                  [t |-> "str",
                   s |-> IF ADZUNA_APP_ID = "" \/ ADZUNA_APP_KEY = ""
                         THEN "False" ELSE "True"]

C14_Witness ==
    /\ ADZUNA_APP_ID # "" /\ ADZUNA_APP_KEY = ""
    /\ IsDone(1) /\ req[1].op = "search_jobs"
    /\ IsDone(2) /\ req[2].op = "health_check"
    /\ req[2].resp.body.m["credentials_configured"] = JStr("False")
    /\ sent = <<>>

\* C15: remove_class_fields is idempotent: applied to a value it returned, it
\* returns that value again.
C15_Idempotent ==
    cleaned2 # NotRun => cleaned2 = cleaned

C15_Witness ==
    /\ data = JObj([__CLASS__ |-> JNum(1),
                    title |-> JObj([__CLASS__ |-> JStr("x")])])
    /\ cleaned = JObj([title |-> JObj(<<>>)])
    /\ cleaned2 = cleaned

\* C16: for categories, top companies, histogram, geodata, history and
\* version, the body of a successful response is the upstream JSON body with
\* every "__CLASS__" key removed and nothing else added, removed or changed;
\* salary_min and salary_max stay.
C16_PassThrough ==
    (/\ IsDone(1)
     /\ req[1].op \in UpstreamOps \ {"search_jobs"}
     /\ req[1].resp.status = 200)
    => /\ req[1].reply.kind = "ok"
       /\ StrippedOf(req[1].resp.body, req[1].reply.body)

C16_Witness ==
    /\ IsDone(1)
    /\ req[1].op = "get_salary_histogram"
    /\ req[1].reply = OkReply(BodyMarked)
    /\ req[1].resp.status = 200
    /\ req[1].resp.body # req[1].reply.body
    /\ "salary_max" \in DOMAIN req[1].resp.body.m["results"].a[1].m
    /\ "salary_min" \in DOMAIN req[1].resp.body.m["results"].a[1].m["company"].m

\* C17: a search request whose page is not an integer or is below 1, or whose
\* results_per_page is not an integer or is outside 1..50, issues no outbound
\* call and, once answered, has status 422; a search request that supplies
\* `what` and at most country, a page >= 1 and a results_per_page in 1..50
\* (50 included) is not answered with 422.
C17_PageBounds ==
    LET args == req[1].args
        NotInt(name) == name \in DOMAIN args /\ ~IsInt(args[name])
        Below(name, low) ==
            name \in DOMAIN args /\ IsInt(args[name]) /\ IntOf(args[name]) < low
        Above(name, high) ==
            name \in DOMAIN args /\ IsInt(args[name]) /\ IntOf(args[name]) > high
        Bad == \/ NotInt("page") \/ Below("page", 1)
               \/ NotInt("results_per_page") \/ Below("results_per_page", 1)
               \/ Above("results_per_page", 50)
    IN  req[1].op = "search_jobs" =>
            /\ Bad => /\ CallsFor(1) = {}
                      /\ req[1].pc # "inflight"
                      /\ IsDone(1) => req[1].resp.status = 422
            /\ (/\ ~Bad
                /\ IsDone(1)
                /\ "what" \in DOMAIN args
                /\ DOMAIN args \subseteq {"what", "country", "page", "results_per_page"})
               => req[1].resp.status # 422

C17_Witness ==
    /\ ADZUNA_APP_ID # "" /\ ADZUNA_APP_KEY # ""
    /\ IsDone(1) /\ req[1].op = "search_jobs"
    /\ req[1].args = [what |-> "dev", results_per_page |-> "51"]
    /\ req[1].resp.status = 422
    /\ sent = <<>>

\* C18: after load_env every variable that was in the environment before the
\* call is still there with its previous value, the empty string included; a
\* variable that was not there before is there now only if a line of the file
\* assigns it; and when the file does not exist the environment is unchanged.
C18_LoadEnvKeepsExisting ==
    boot # "start" =>
        /\ \A k \in DOMAIN environ0 : k \in DOMAIN environ /\ environ[k] = environ0[k]
        /\ \A k \in DOMAIN environ \ DOMAIN environ0 :
              /\ envfile.exists
              /\ \E i \in 1..Len(envfile.lines) :
                    /\ EqualsAt(envfile.lines[i]) # {}
                    /\ StartsWith(Strip(envfile.lines[i]), k)
        /\ ~envfile.exists => environ = environ0

C18_Witness ==
    /\ boot = "ready"
    /\ environ0 = [ADZUNA_APP_ID |-> ""]
    /\ envfile = EnvFile(<<"ADZUNA_APP_ID=file_id\n", "  ADZUNA_APP_KEY = file_key \n">>)
    /\ environ = [ADZUNA_APP_ID |-> "", ADZUNA_APP_KEY |-> "file_key"]
    /\ ADZUNA_APP_ID = "" /\ ADZUNA_APP_KEY = "file_key"

\* C19: whatever MCP requests came before (unknown methods and failed tool
\* calls included), every tools/list reply holds the same set of tools; that
\* set has search_jobs, get_top_companies, get_salary_histogram and
\* health_check, each with a non-empty description, and the input schema of
\* search_jobs lists `what` as required.
C19_ToolsListStable ==
    \A i \in 1..Len(mcp.log) :
        mcp.log[i].method = "tools/list" =>
            /\ \A j \in 1..Len(mcp.log) :
                  mcp.log[j].method = "tools/list"
                  => mcp.log[j].tools = mcp.log[i].tools
            /\ \A name \in {"search_jobs", "get_top_companies",
                            "get_salary_histogram", "health_check"} :
                  \E tool \in mcp.log[i].tools :
                      tool.name = name /\ tool.description # ""
            /\ \A tool \in mcp.log[i].tools :
                  tool.name = "search_jobs" => "what" \in tool.required

C19_Witness ==
    /\ Len(mcp.log) = 4
    /\ mcp.log[1].method = "tools/list"
    /\ mcp.log[2].method = "invalid/method" /\ mcp.log[2].error
    /\ mcp.log[3].method = "tools/call" /\ mcp.log[3].error
    /\ mcp.log[4].method = "tools/list"
    /\ mcp.log[4].tools = mcp.log[1].tools
    /\ Cardinality(mcp.log[4].tools) = 8

\* C20, as stated: a search request that lacks `what` while the stored app id
\* or app key is empty is answered with the status-500
\* credentials-not-configured failure.
C20_CredentialCheckFirst ==
    (/\ IsDone(1)
     /\ req[1].op = "search_jobs"
     /\ "what" \notin DOMAIN req[1].args
     /\ (ADZUNA_APP_ID = "" \/ ADZUNA_APP_KEY = ""))
    => /\ req[1].resp.status = 500
       /\ req[1].resp.detail = CREDENTIALS_DETAIL_SEARCH

\* C20, amended: the declared parameters are validated before the handler
\* body, whose first step is the credential check.  With the stored app id or
\* app key empty, a search request issues no outbound call; it is answered
\* with the 422 validation error when it lacks `what`, and every answer that
\* is not the validation error is the status-500 credentials-not-configured
\* failure.
C20_ValidationThenCredentials ==
    (/\ IsDone(1)
     /\ req[1].op = "search_jobs"
     /\ (ADZUNA_APP_ID = "" \/ ADZUNA_APP_KEY = ""))
    => /\ CallsFor(1) = {}
       /\ "what" \notin DOMAIN req[1].args
          => req[1].resp = [status |-> 422, detail |-> "Unprocessable Entity",
                            body |-> NoBody]
       /\ req[1].resp.status # 422
          => /\ "what" \in DOMAIN req[1].args
             /\ req[1].resp.status = 500
             /\ req[1].resp.detail = CREDENTIALS_DETAIL_SEARCH

C20_Witness ==
    /\ ADZUNA_APP_ID = "" /\ ADZUNA_APP_KEY = ""
    /\ IsDone(1)
    /\ req[1].op = "search_jobs"
    /\ "what" \notin DOMAIN req[1].args
    /\ req[1].resp.status = 422
    /\ sent = <<>>

\* C21: every outbound request carries app_id and app_key equal to the stored
\* credentials; its query holds content-type=application/json if and only if
\* it is a search; and every optional parameter its operation declares that
\* was supplied with a non-empty value is in the query under the same name
\* with the supplied value (a flag as 1 for true and 0 for false).
C21_QueryContents ==
    \A i \in 1..Len(sent) :
        LET out == sent[i]
            op == req[out.rid].op
            args == req[out.rid].args
        IN  /\ {"app_id", "app_key"} \subseteq DOMAIN out.params
            /\ out.params["app_id"] = ADZUNA_APP_ID
            /\ out.params["app_key"] = ADZUNA_APP_KEY
            /\ ("content-type" \in DOMAIN out.params) <=> (op = "search_jobs")
            /\ op = "search_jobs" => out.params["content-type"] = "application/json"
            /\ \A name \in DOMAIN args :
                  /\ (name \in StrParams(op) \cup IntParams(op) /\ args[name] # "")
                     => /\ name \in DOMAIN out.params
                        /\ out.params[name] = args[name]
                  /\ (op = "search_jobs" /\ name \in BoolParams)
                     => /\ name \in DOMAIN out.params
                        /\ out.params[name] =
                               (IF args[name] \in {"true", "1"} THEN "1" ELSE "0")

C21_Witness ==
    /\ Len(sent) = 1
    /\ req[1].op = "search_jobs"
    /\ req[1].args = [what |-> "dev", where |-> "NY", company |-> "",
                      max_days_old |-> "1", location0 |-> "UK", contract |-> "false"]
    /\ sent[1].params = [app_id |-> "test_app_id", app_key |-> "test_app_key",
                         results_per_page |-> "10", what |-> "dev", where |-> "NY",
                         max_days_old |-> "1", location0 |-> "UK", contract |-> "0"]
                        @@ ("content-type" :> "application/json")

\* C22, as stated: the URL of every outbound request, the version operation
\* included, is https://api.adzuna.com/v1/api/jobs/{country}/{operation} with
\* /{page} appended for search only; country is the supplied one or "sg",
\* page the supplied one or 1, and a search without results_per_page sends
\* results_per_page=10.
C22_UrlForm ==
    \A i \in 1..Len(sent) :
        LET out == sent[i]
            op == req[out.rid].op
            args == req[out.rid].args
            country == IF "country" \in DOMAIN args THEN args["country"] ELSE "sg"
            page == IF "page" \in DOMAIN args THEN args["page"] ELSE "1"
        IN  /\ out.url = "https://api.adzuna.com/v1/api/jobs/" \o country \o "/"
                         \o UpstreamPath(op)
                         \o (IF op = "search_jobs" THEN "/" \o page ELSE "")
            /\ (op = "search_jobs" /\ "results_per_page" \notin DOMAIN args)
               => out.params["results_per_page"] = "10"

\* C22, amended: the URL of an outbound request of every operation but
\* version is https://api.adzuna.com/v1/api/jobs/{country}/{operation} with
\* /{page} appended for search only, country being the supplied one or "sg"
\* and page the supplied one or 1; the URL of the version operation is
\* https://api.adzuna.com/v1/api/version, with no jobs or country segment; a
\* search without results_per_page sends results_per_page=10.
C22_UrlFormButVersion ==
    \A i \in 1..Len(sent) :
        LET out == sent[i]
            op == req[out.rid].op
            args == req[out.rid].args
            country == IF "country" \in DOMAIN args THEN args["country"] ELSE "sg"
            page == IF "page" \in DOMAIN args THEN args["page"] ELSE "1"
        IN  /\ op # "get_api_version"
               => out.url = "https://api.adzuna.com/v1/api/jobs/" \o country \o "/"
                            \o UpstreamPath(op)
                            \o (IF op = "search_jobs" THEN "/" \o page ELSE "")
            /\ op = "get_api_version"
               => out.url = "https://api.adzuna.com/v1/api/version"
            /\ (op = "search_jobs" /\ "results_per_page" \notin DOMAIN args)
               => out.params["results_per_page"] = "10"

C22_Witness ==
    /\ Len(sent) = 1
    /\ req[1].op = "search_jobs"
    /\ req[1].args = [what |-> "dev", country |-> "gb", page |-> "3"]
    /\ sent[1].url = "https://api.adzuna.com/v1/api/jobs/gb/search/3"
    /\ sent[1].params["results_per_page"] = "10"

-----------------------------------------------------------------------------
\* the number of nodes of a JSON value
RECURSIVE Size(_)
RECURSIVE SizeAll(_, _)
Size(v) ==
    IF v.t = "obj" THEN 1 + SizeAll(v.m, DOMAIN v.m)
    ELSE IF v.t = "arr" THEN 1 + SizeAll(v.a, DOMAIN v.a)
    ELSE 1

SizeAll(children, keys) ==
    IF keys = {} THEN 0
    ELSE LET key == CHOOSE k \in keys : TRUE
         IN  Size(children[key]) + SizeAll(children, keys \ {key})

MaxOf(S) == CHOOSE x \in S : \A y \in S : y <= x

\* the nesting depth of a JSON value: the levels of its tree, a scalar or an
\* empty container being one level
RECURSIVE Depth(_)
Depth(v) ==
    IF v.t = "obj" THEN 1 + MaxOf({0} \cup {Depth(v.m[key]) : key \in DOMAIN v.m})
    ELSE IF v.t = "arr" THEN 1 + MaxOf({0} \cup {Depth(v.a[i]) : i \in DOMAIN v.a})
    ELSE 1

CallOver == call.pc \in {"returned", "popped"}

\* C23: remove_class_fields terminates on every finite JSON value: every
\* recursive call in progress is on a child of the caller's argument, a value
\* with strictly fewer nodes, the call stack is never deeper than the nesting
\* depth of the input, and the call eventually returns
C23_Terminates ==
    /\ [](/\ \A i \in 2..Len(call.stack) :
              /\ \E key \in ChildKeys(call.heap, call.stack[i - 1].data) :
                     ChildSlot(call.heap, call.stack[i - 1].data, key)
                         = call.stack[i].data
              /\ Size(Deref(call.heap, call.stack[i].data))
                     < Size(Deref(call.heap, call.stack[i - 1].data))
          /\ Len(call.stack) <= Depth(data))
    /\ <>(CallOver /\ cleaned = remove_class_fields(data))

\* a three-level payload has been cleaned
C23_Witness ==
    /\ CallOver
    /\ Depth(data) >= 3
    /\ cleaned = remove_class_fields(data)
    /\ cleaned # data

\* the cells of the parsed payload, as response.json() built them
Parsed == Load(<<>>, data)

\* the addresses of the dicts and lists a slot reaches
RECURSIVE ContainersOf(_, _)
ContainersOf(heap, slot) ==
    IF ~IsRef(slot) THEN {}
    ELSE LET cell == heap[slot.at]
             children == IF cell.t = "obj" THEN cell.m ELSE cell.a
         IN  {slot.at} \cup UNION {ContainersOf(heap, children[key]) :
                                      key \in DOMAIN children}

\* C24: remove_class_fields is side-effect-free: at every step of the call
\* and of the search operation's removal of salary_min/salary_max after it,
\* every dict and list of the parsed payload is as it was parsed, and no dict
\* or list of the returned value is one of the payload's
C24_SideEffectFree ==
    /\ SubSeq(call.heap, 1, Len(Parsed.heap)) = Parsed.heap
    /\ Deref(call.heap, call.root) = data
    /\ CallOver =>
          ContainersOf(call.heap, call.ret) \cap (1..Len(Parsed.heap)) = {}

\* the salary fields were removed from a job of the cleaned results, and the
\* parsed payload still has them
C24_Witness ==
    /\ call.pc = "popped"
    /\ Deref(call.heap, call.ret) # cleaned
    /\ cleaned = remove_class_fields(data)
    /\ Deref(call.heap, call.root) = data
    /\ \E i \in DOMAIN data.m["results"].a :
          "salary_min" \in DOMAIN data.m["results"].a[i].m

-----------------------------------------------------------------------------
\* sub occurs in the string s
Contains(s, sub) ==
    \E i \in 1..(Len(s) - Len(sub) + 1) : SubSeq(s, i, i + Len(sub) - 1) = sub

\* sub occurs in a string or a key of the JSON value v
RECURSIVE JsonContains(_, _)
JsonContains(v, sub) ==
    IF v.t = "str" THEN Contains(v.s, sub)
    ELSE IF v.t = "obj"
    THEN \E key \in DOMAIN v.m : Contains(key, sub) \/ JsonContains(v.m[key], sub)
    ELSE IF v.t = "arr" THEN \E i \in DOMAIN v.a : JsonContains(v.a[i], sub)
    ELSE FALSE

\* C25: no response to a local caller, neither a success body nor the message
\* of a failure made from an upstream error, contains the value of the stored
\* app key or app id.
C25_NoCredentialInResponse ==
    \A r \in Req :
        IsDone(r) =>
            \A secret \in {ADZUNA_APP_ID, ADZUNA_APP_KEY} \ {""} :
                /\ ~Contains(req[r].resp.detail, secret)
                /\ ~JsonContains(req[r].resp.body, secret)

\* C26: for the search operation, every upstream 2xx reply with a valid JSON
\* body ends in a success or in a failure with status 500 and the
\* "Error calling Adzuna API: " prefix, whatever the shape of the body.
C26_SearchAlwaysNormalized ==
    \A r \in Req :
        (IsDone(r) /\ req[r].op = "search_jobs" /\ req[r].reply.kind = "ok") =>
            \/ req[r].resp.status = 200
            \/ /\ req[r].resp.status = 500
               /\ Len(req[r].resp.detail) >= Len(ERROR_PREFIX)
               /\ SubSeq(req[r].resp.detail, 1, Len(ERROR_PREFIX)) = ERROR_PREFIX

\* C27: every request that has arrived eventually has a response, given that
\* each outbound call returns, raises or times out; the response is a success
\* or a failure, and once a request has its response nothing about it
\* changes again: no second, deferred result.
C27_ExactlyOneResponse ==
    /\ \A r \in Req : (req[r].pc = "arrived") ~> IsDone(r)
    /\ [](\A r \in Req : IsDone(r) => req[r].resp.status \in {200, 422, 500})
    /\ [][\A r \in Req : IsDone(r) => req'[r] = req[r]]_vars

\* every request was answered, one of them with a failure after its outbound
\* call timed out and one with a success
C27_Witness ==
    /\ \A r \in Req : IsDone(r)
    /\ \E r \in Req : req[r].reply.kind = "timeout" /\ req[r].resp.status = 500
    /\ \E r \in Req : req[r].resp.status = 200

\* a search request answered with a success, and the upstream body it is from
SearchSuccess(r) ==
    IsDone(r) /\ req[r].op = "search_jobs" /\ req[r].reply.kind = "ok"
    /\ req[r].resp.status = 200

\* C28 as stated: the body of a successful search response has exactly the
\* keys count and results; count is the upstream count unchanged, or 0 when
\* the upstream body has none; results is the cleaned upstream results list,
\* or [] when the upstream body has none; other top-level fields are dropped.
C28_SearchBodyShape ==
    \A r \in Req :
        SearchSuccess(r) =>
            LET up == req[r].reply.body
                out == req[r].resp.body
            IN  /\ out.t = "obj"
                /\ DOMAIN out.m = {"count", "results"}
                /\ out.m["count"] = IF "count" \in DOMAIN up.m
                                    THEN up.m["count"] ELSE JNum(0)
                /\ out.m["results"] =
                      IF "results" \in DOMAIN up.m
                      THEN JArr(SearchResults(remove_class_fields(up.m["results"])))
                      ELSE JArr(<<>>)

\* C28, amended: as above, except that count is always an integer: the
\* upstream count unchanged when it is an integer, and the integer a string
\* of digits spells when the upstream count is such a string.
C28_SearchBodyShapeIntCount ==
    \A r \in Req :
        SearchSuccess(r) =>
            LET up == req[r].reply.body
                out == req[r].resp.body
            IN  /\ out.t = "obj"
                /\ DOMAIN out.m = {"count", "results"}
                /\ out.m["count"].t = "num"
                /\ IF "count" \notin DOMAIN up.m THEN out.m["count"] = JNum(0)
                   ELSE IF up.m["count"].t = "num"
                   THEN out.m["count"] = up.m["count"]
                   ELSE /\ up.m["count"].t = "str"
                        /\ ToString(out.m["count"].n) = up.m["count"].s
                /\ out.m["results"] =
                      IF "results" \in DOMAIN up.m
                      THEN JArr(SearchResults(remove_class_fields(up.m["results"])))
                      ELSE JArr(<<>>)

\* a body with two results, count 1 and a `mean` field was answered with
\* count 1, the two cleaned results and nothing else
C28_Witness ==
    /\ SearchSuccess(1)
    /\ req[1].reply.body = BodyMarked
    /\ DOMAIN req[1].resp.body.m = {"count", "results"}
    /\ req[1].resp.body.m["count"] = JNum(1)
    /\ Len(req[1].resp.body.m["results"].a) = 2

\* the parameters of a request that its operation does not declare
Undeclared(r) == DOMAIN req[r].args \ DeclaredParams(req[r].op)

\* C29: the keys of every outbound query are among app_id, app_key and the
\* parameters the operation declares (and content-type for search); a
\* parameter the operation does not declare is never forwarded, and a request
\* carrying one is validated as the same request without it.
C29_OnlyDeclaredForwarded ==
    /\ \A i \in 1..Len(sent) :
          LET r == sent[i].rid
          IN  /\ DOMAIN sent[i].params \subseteq
                    {"app_id", "app_key"} \cup DeclaredParams(req[r].op)
                    \cup (IF req[r].op = "search_jobs" THEN {"content-type"} ELSE {})
              /\ Undeclared(r) \cap DOMAIN sent[i].params = {}
    /\ \A r \in Req :
          (IsDone(r) /\ Undeclared(r) # {}) =>
              (req[r].resp.status = 422) =
                  ~ValidRequest(req[r].op,
                                [name \in DOMAIN req[r].args \ Undeclared(r)
                                    |-> req[r].args[name]])

\* a search with salary_min and salary_max was accepted, and its outbound
\* query has neither
C29_Witness ==
    /\ IsDone(1)
    /\ req[1].op = "search_jobs"
    /\ Undeclared(1) = {"salary_min", "salary_max"}
    /\ req[1].resp.status = 200
    /\ Len(sent) = 1
    /\ DOMAIN sent[1].params =
          {"app_id", "app_key", "results_per_page", "what", "content-type"}

\* the optional string parameters of a request supplied as the empty string
EmptyStrings(r) ==
    {name \in StrParams(req[r].op) \cap DOMAIN req[r].args : req[r].args[name] = ""}

\* C30: an optional string parameter supplied as the empty string is left
\* out of the outbound query, and the outbound call is the one the request
\* without that parameter gives; an optional integer parameter (distance,
\* max_days_old, months) is in the query exactly when it is supplied, and
\* supplied as 0 it is forwarded as 0.
C30_EmptyOmittedZeroKept ==
    \A i \in 1..Len(sent) :
        LET r == sent[i].rid
            op == req[r].op
            args == req[r].args
        IN  /\ EmptyStrings(r) \cap DOMAIN sent[i].params = {}
            /\ sent[i] = Outbound(r, op, [name \in DOMAIN args \ EmptyStrings(r)
                                             |-> args[name]])
            /\ \A name \in IntParams(op) :
                  /\ name \in DOMAIN sent[i].params <=> name \in DOMAIN args
                  /\ (name \in DOMAIN args /\ args[name] = "0")
                        => sent[i].params[name] = "0"

\* a search with where = "" and distance = 0 was sent without where and with
\* distance 0
C30_Witness ==
    /\ Len(sent) = 1
    /\ req[1].op = "search_jobs"
    /\ req[1].args = [what |-> "dev", where |-> "", sort_by |-> "date",
                      distance |-> "0"]
    /\ DOMAIN sent[1].params =
          {"app_id", "app_key", "results_per_page", "what", "content-type",
           "sort_by", "distance"}
    /\ sent[1].params["distance"] = "0"

=============================================================================
